---- MODULE Spec2Model ----
(***************************************************************************)
(* A model of keep-to-markdown.py: the conversion of a directory of Google *)
(* Keep notes (one JSON document per note) into Markdown files under the   *)
(* output root "notes", with the image attachments copied into a           *)
(* "resources" directory.                                                  *)
(*                                                                         *)
(* Text is a sequence of tokens.  Data that comes from a note (title, tag, *)
(* file name, body) is a sequence of one-character tokens, so that the     *)
(* character-level operations of the code (str.replace, slicing, the `in`  *)
(* substring test) are computed character by character.  A literal that    *)
(* the program writes as a whole ("---\n", "*Weblinks:*", ".md") is one    *)
(* token.                                                                  *)
(*                                                                         *)
(* userEditedTimestampUsec is an integer of microseconds; it is held as    *)
(* the pair [sec, usec] (value sec * 1000000 + usec) because the values of *)
(* real notes do not fit the model checker's 32-bit integers.              *)
(***************************************************************************)
EXTENDS Integers, Sequences, FiniteSets, TLC

VARIABLES
    pc,            \* position of the run: boot, loop, done, crashed (and the stages of the pure steps)
    conv_folders,  \* args.t: one folder per first tag
    tz,            \* the local time zone, as seconds east of UTC
    clock,         \* the last reading of dt.now(), [sec, usec]
    srcFiles,      \* the file names present in the source root (args.i)
    sibFiles,      \* the names n for which the path str(args.i) + n exists
    dirs,          \* the directories of the output tree, as paths
    files,         \* the files of the output tree: path -> content
    data,          \* the note record being processed
    derived,       \* filename, has_title, date of the note being processed
    cleaned,       \* the result of the last clean_title call
    log            \* what was observed at each note's write, in order

vars == <<pc, conv_folders, tz, clock, srcFiles, sibFiles, dirs, files, data,
          derived, cleaned, log>>

(***************************************************************************)
(* Bounds of the model.                                                    *)
(***************************************************************************)
MaxTitleLen == 2
MaxNotes == 2
MaxRenderNotes == 1

(***************************************************************************)
(* Text helpers.                                                           *)
(***************************************************************************)
Min(a, b) == IF a < b THEN a ELSE b

Range(s) == {s[i] : i \in 1..Len(s)}

\* s[:n]
Take(s, n) == SubSeq(s, 1, Min(n, Len(s)))

\* s[n:]
Drop(s, n) == SubSeq(s, Min(n, Len(s)) + 1, Len(s))

\* c * n
Rep(c, n) == [i \in 1..n |-> c]

\* s.startswith(sub)
StartsWith(s, sub) == Len(sub) <= Len(s) /\ SubSeq(s, 1, Len(sub)) = sub

\* sub in s
RECURSIVE Contains(_, _)
Contains(s, sub) ==
    IF Len(sub) > Len(s) THEN FALSE
    ELSE IF StartsWith(s, sub) THEN TRUE
    ELSE Contains(Tail(s), sub)

\* s.replace(old, new): every non-overlapping occurrence, left to right
RECURSIVE Replace(_, _, _)
Replace(s, old, new) ==
    IF s = <<>> \/ old = <<>> THEN s
    ELSE IF StartsWith(s, old) THEN new \o Replace(Drop(s, Len(old)), old, new)
    ELSE <<Head(s)>> \o Replace(Tail(s), old, new)

\* s.replace(c, new) for a pattern c of one character: each character is
\* replaced on its own, so the text is rewritten half by half
RECURSIVE ReplaceChar(_, _, _)
ReplaceChar(s, c, new) ==
    IF Len(s) = 0 THEN s
    ELSE IF Len(s) = 1 THEN (IF s[1] = c THEN new ELSE s)
    ELSE LET h == Len(s) \div 2
         IN  ReplaceChar(SubSeq(s, 1, h), c, new) \o ReplaceChar(SubSeq(s, h + 1, Len(s)), c, new)

\* sep.join(parts)
RECURSIVE Join(_, _)
Join(sep, parts) ==
    IF parts = <<>> THEN <<>>
    ELSE IF Len(parts) = 1 THEN parts[1]
    ELSE parts[1] \o sep \o Join(sep, Tail(parts))

\* "".join(parts)
RECURSIVE Concat(_)
Concat(parts) ==
    IF Len(parts) = 0 THEN <<>>
    ELSE IF Len(parts) = 1 THEN parts[1]
    ELSE LET h == Len(parts) \div 2
         IN  Concat(SubSeq(parts, 1, h)) \o Concat(SubSeq(parts, h + 1, Len(parts)))

Digit(n) == <<"0", "1", "2", "3", "4", "5", "6", "7", "8", "9">>[n + 1]

\* str(n) of a natural number
RECURSIVE Str(_)
Str(n) == IF n < 10 THEN <<Digit(n)>> ELSE Str(n \div 10) \o <<Digit(n % 10)>>

\* n formatted in at least w digits, zero padded (%02d, %04d, %06d)
Pad(n, w) == LET s == Str(n) IN Rep("0", IF Len(s) < w THEN w - Len(s) ELSE 0) \o s

(***************************************************************************)
(* clean_title                                                             *)
(***************************************************************************)
\* A faulty variant: the newline characters are kept.
clean_title_keeps_newline(title) ==
    LET t1 == ReplaceChar(ReplaceChar(ReplaceChar(title, "\\", <<"_">>), "/", <<"_">>), "|", <<"_">>)
        t2 == ReplaceChar(ReplaceChar(ReplaceChar(t1, "<", <<"-">>), ">", <<"-">>), ":", <<" ">>)
        t3 == ReplaceChar(ReplaceChar(ReplaceChar(t2, "?", <<>>), "\"", <<>>), "*", <<>>)
    IN  t3

clean_title(title) ==
    LET t1 == ReplaceChar(ReplaceChar(ReplaceChar(title, "\\", <<"_">>), "/", <<"_">>), "|", <<"_">>)
        t2 == ReplaceChar(ReplaceChar(ReplaceChar(t1, "<", <<"-">>), ">", <<"-">>), ":", <<" ">>)
        t3 == ReplaceChar(ReplaceChar(ReplaceChar(t2, "?", <<>>), "\"", <<>>), "*", <<>>)
        t4 == ReplaceChar(t3, "\n", <<>>)
    IN  t4

(***************************************************************************)
(* datetime: fromtimestamp, strftime, isoformat                            *)
(***************************************************************************)
\* The civil date of day z, counted from 1970-01-01 (proleptic Gregorian).
CivilFromDays(z) ==
    LET zz  == z + 719468
        era == zz \div 146097
        doe == zz - era * 146097
        yoe == (doe - doe \div 1460 + doe \div 36524 - doe \div 146096) \div 365
        doy == doe - (365 * yoe + yoe \div 4 - yoe \div 100)
        mp  == (5 * doy + 2) \div 153
        d   == doy - (153 * mp + 2) \div 5 + 1
        m   == IF mp < 10 THEN mp + 3 ELSE mp - 9
        y   == yoe + era * 400 + (IF m <= 2 THEN 1 ELSE 0)
    IN  [year |-> y, month |-> m, day |-> d]

\* dt.fromtimestamp(timestamp / 1000000), and dt.now(): the local date and time
fromtimestamp(ts) ==
    LET local == ts.sec + tz
        civil == CivilFromDays(local \div 86400)
        sod   == local % 86400
    IN  [year |-> civil.year, month |-> civil.month, day |-> civil.day,
         hour |-> sod \div 3600, minute |-> (sod % 3600) \div 60,
         second |-> sod % 60, microsecond |-> ts.usec]

\* date_obj.strftime("%Y-%m-%d+%H%M%S")
strftime_dated(d) ==
    Pad(d.year, 4) \o <<"-">> \o Pad(d.month, 2) \o <<"-">> \o Pad(d.day, 2) \o <<"+">>
        \o Pad(d.hour, 2) \o Pad(d.minute, 2) \o Pad(d.second, 2)

\* dt.now().strftime("%Y%m%dT%H%M%S.%f_edited")
strftime_now(d) ==
    Pad(d.year, 4) \o Pad(d.month, 2) \o Pad(d.day, 2) \o <<"T">>
        \o Pad(d.hour, 2) \o Pad(d.minute, 2) \o Pad(d.second, 2) \o <<".">>
        \o Pad(d.microsecond, 6) \o <<"_", "e", "d", "i", "t", "e", "d">>

\* date_obj.isoformat(timespec="seconds")
isoformat(d) ==
    Pad(d.year, 4) \o <<"-">> \o Pad(d.month, 2) \o <<"-">> \o Pad(d.day, 2) \o <<"T">>
        \o Pad(d.hour, 2) \o <<":">> \o Pad(d.minute, 2) \o <<":">> \o Pad(d.second, 2)

(***************************************************************************)
(* The filename of a note: the match statement of read_write_notes.        *)
(***************************************************************************)
MaxNameLen == 99

IsZero(ts) == ts.sec = 0 /\ ts.usec = 0

\* A faulty variant: the title is cut before it is sanitized.
Derive_cut_first(title, timestamp, now) ==
    IF title = <<>> /\ IsZero(timestamp)
    THEN [filename |-> strftime_now(fromtimestamp(now)), has_title |-> FALSE,
          has_date |-> FALSE, date |-> <<>>]
    ELSE IF IsZero(timestamp)
    THEN [filename |-> clean_title(Take(title, MaxNameLen)), has_title |-> TRUE,
          has_date |-> FALSE, date |-> <<>>]
    ELSE IF title # <<>>
         THEN [filename |-> clean_title(Take(title, MaxNameLen)), has_title |-> TRUE,
               has_date |-> TRUE, date |-> isoformat(fromtimestamp(timestamp))]
         ELSE [filename |-> strftime_dated(fromtimestamp(timestamp)),
               has_title |-> FALSE, has_date |-> FALSE, date |-> <<>>]

\* (filename, has_title, date) of a note; has_date is `date is not None`.
Derive(title, timestamp, now) ==
    IF title = <<>> /\ IsZero(timestamp)                      \* case "", 0
    THEN [filename |-> strftime_now(fromtimestamp(now)), has_title |-> FALSE,
          has_date |-> FALSE, date |-> <<>>]
    ELSE IF IsZero(timestamp)                                 \* case title, 0
    THEN [filename |-> Take(clean_title(title), MaxNameLen), has_title |-> TRUE,
          has_date |-> FALSE, date |-> <<>>]
    ELSE IF title # <<>>                                      \* case title, timestamp
         THEN [filename |-> Take(clean_title(title), MaxNameLen), has_title |-> TRUE,
               has_date |-> TRUE, date |-> isoformat(fromtimestamp(timestamp))]
         ELSE [filename |-> strftime_dated(fromtimestamp(timestamp)),
               has_title |-> FALSE, has_date |-> FALSE, date |-> <<>>]

(***************************************************************************)
(* Names the program spells out, character by character where they become  *)
(* part of a path.                                                         *)
(***************************************************************************)
NOTES == <<"n", "o", "t", "e", "s">>
RESOURCES == <<"r", "e", "s", "o", "u", "r", "c", "e", "s">>
MD == <<".", "m", "d">>
IMAGE == <<"i", "m", "a", "g", "e">>
JPG == <<".", "j", "p", "g">>
JPE == <<".", "j", "p", "e">>
JPEG == <<".", "j", "p", "e", "g">>
PNG == <<".", "p", "n", "g">>

(***************************************************************************)
(* pathlib: a path is the sequence of its components.                      *)
(***************************************************************************)
\* The components of a relative path text: split on "/", without the empty ones.
RECURSIVE Components(_, _)
Components(s, cur) ==
    IF s = <<>> THEN (IF cur = <<>> THEN <<>> ELSE <<cur>>)
    ELSE IF Head(s) = "/"
         THEN (IF cur = <<>> THEN <<>> ELSE <<cur>>) \o Components(Tail(s), <<>>)
         ELSE Components(Tail(s), cur \o <<Head(s)>>)

\* base / text
PathJoin(base, s) == base \o Components(s, <<>>)

Parent(p) == SubSeq(p, 1, Len(p) - 1)

notes_root == <<NOTES>>

\* Path.exists() in a tree with directories ds and files fs
Exists(p, ds, fs) == p \in ds \/ p \in DOMAIN fs

\* a file written or replaced
Put(fs, p, content) == [q \in DOMAIN fs \cup {p} |-> IF q = p THEN content ELSE fs[q]]

(***************************************************************************)
(* The duplicate check of read_write_notes (lines 87-100).                 *)
(***************************************************************************)
Numbered(filename, n) == filename \o <<"(">> \o Str(n) \o <<")">>

\* itertools.count(1): the first dup_num whose file does not exist
RECURSIVE FirstFree(_, _, _, _, _)
FirstFree(notes_dir, filename, n, ds, fs) ==
    IF ~Exists(notes_dir \o <<Numbered(filename, n) \o MD>>, ds, fs) THEN n
    ELSE FirstFree(notes_dir, filename, n + 1, ds, fs)

\* A faulty variant: the number is not incremented past 1.
Resolve_no_increment(notes_dir, filename, ds, fs) ==
    IF Exists(notes_dir \o <<filename \o MD>>, ds, fs)
    THEN Numbered(filename, 1)
    ELSE filename

Resolve(notes_dir, filename, ds, fs) ==
    IF Exists(notes_dir \o <<filename \o MD>>, ds, fs)
    THEN Numbered(filename, FirstFree(notes_dir, filename, 1, ds, fs))
    ELSE filename

(***************************************************************************)
(* mimetypes                                                               *)
(***************************************************************************)
RECURSIVE LastDot(_, _)
LastDot(s, i) == IF i = 0 THEN 0 ELSE IF s[i] = "." THEN i ELSE LastDot(s, i - 1)

\* posixpath.splitext(name)[1]: from the last dot, unless only dots precede it
Ext(name) ==
    LET i == LastDot(name, Len(name))
    IN  IF i = 0 \/ (\A j \in 1..(i - 1) : name[j] = ".") THEN <<>>
        ELSE SubSeq(name, i, Len(name))

\* mimetypes.guess_type(...)[0]; "" is None
guess_type(name) ==
    IF Ext(name) \in {JPG, JPE, JPEG} THEN "image/jpeg"
    ELSE IF Ext(name) = PNG THEN "image/png"
    ELSE ""

\* mimetypes.guess_all_extensions(type)
guess_all_extensions(type) ==
    IF type = "image/jpeg" THEN <<JPG, JPE, JPEG>>
    ELSE IF type = "image/png" THEN <<PNG>>
    ELSE <<>>

(***************************************************************************)
(* copy_file: shutil.copy2(source_dir / file, notes_dir / "resources")     *)
(***************************************************************************)
\* what a copy of source file `file` holds
SrcContent(file) == <<"bytes of ">> \o file

\* [ok, files]: ok is the returned bool.  The destination is the resources
\* directory when there is one, and else a file of that name.
copy_file(file, notes_dir, ds, fs) ==
    LET dst == notes_dir \o <<RESOURCES>>
    IN  IF file \notin srcFiles THEN [ok |-> FALSE, files |-> fs]
        ELSE IF dst \in ds
             THEN [ok |-> TRUE, files |-> Put(fs, dst \o <<file>>, SrcContent(file))]
             ELSE [ok |-> TRUE, files |-> Put(fs, dst, SrcContent(file))]

(***************************************************************************)
(* read_attachments                                                        *)
(***************************************************************************)
\* glob.glob(f"{path}{image_name}{t}"): the path text has no separator
\* between the source root and the name
GlobHit(name) == name \in sibFiles

\* for t in types (lines 193-197); st = [image, files]
RECURSIVE InnerLoop(_, _, _, _, _)
InnerLoop(ts, image_name, notes_dir, ds, st) ==
    IF ts = <<>> THEN st
    ELSE LET found == image_name \o Head(ts)
             st1 == IF GlobHit(found)
                    THEN [image |-> found,
                          files |-> copy_file(found, notes_dir, ds, st.files).files]
                    ELSE st
         IN  InnerLoop(Tail(ts), image_name, notes_dir, ds, st1)

\* for type in types (lines 190-197)
RECURSIVE OuterLoop(_, _, _, _, _)
OuterLoop(rest, types, notes_dir, ds, st) ==
    IF rest = <<>> THEN st
    ELSE LET type == Head(rest)
             st1 == IF Contains(st.image, type)
                    THEN InnerLoop(types, Replace(st.image, type, <<>>), notes_dir, ds, st)
                    ELSE st
         IN  OuterLoop(Tail(rest), types, notes_dir, ds, st1)

ATT_HEAD == "*Attachments:*\n"

Link(image) == <<"![">> \o image \o <<"](resources/">> \o image \o <<")\n">>

\* One entry of the loop (lines 180-198); st = [out, files, ok], ok = FALSE
\* once the assertion of line 188 has failed.
Attach(entry, notes_dir, ds, st) ==
    IF ~Contains(entry.mimetype, IMAGE) THEN st
    ELSE LET image == entry.filePath
             first == copy_file(image, notes_dir, ds, st.files)
         IN  IF first.ok
             THEN [out |-> st.out \o Link(image), files |-> first.files, ok |-> TRUE]
             ELSE IF guess_type(image) = ""
             THEN [out |-> st.out, files |-> st.files, ok |-> FALSE]
             ELSE LET types == guess_all_extensions(guess_type(image))
                      r == OuterLoop(types, types, notes_dir, ds,
                                     [image |-> image, files |-> st.files])
                  IN  [out |-> st.out \o Link(r.image), files |-> r.files, ok |-> TRUE]

RECURSIVE AttachAll(_, _, _, _)
AttachAll(list, notes_dir, ds, st) ==
    IF list = <<>> \/ ~st.ok THEN st
    ELSE AttachAll(Tail(list), notes_dir, ds, Attach(Head(list), notes_dir, ds, st))

\* [out, files, ok]: the text returned, the files after the copies, and
\* whether the call returned (ok) or raised AssertionError
read_attachments(list, notes_dir, ds, fs) ==
    AttachAll(list, notes_dir, ds, [out |-> <<ATT_HEAD>>, files |-> fs, ok |-> TRUE])

(***************************************************************************)
(* format_tags, read_tasklist, read_annotations and the header             *)
(***************************************************************************)
format_tags(tags) == <<"tags: [">> \o Join(<<", ">>, tags) \o <<"]">>

TASK_HEAD == "*Tasklist:*\n"

RECURSIVE TaskLines(_)
TaskLines(list) ==
    IF list = <<>> THEN <<>>
    ELSE (IF Head(list).isChecked
          THEN <<"- [x] ">> \o Head(list).text \o <<"\n">>
          ELSE <<"- [ ] ">> \o Head(list).text \o <<"\n">>) \o TaskLines(Tail(list))

read_tasklist(list) == <<TASK_HEAD>> \o TaskLines(list)

WEB_HEAD == "*Weblinks:*"
WEBLINK == <<"W", "E", "B", "L", "I", "N", "K">>

RECURSIVE WebLinks(_)
WebLinks(list) ==
    IF list = <<>> THEN <<>>
    ELSE (IF Head(list).source = WEBLINK
          THEN <<" [">> \o Head(list).title \o <<"](">> \o Head(list).url \o <<");">>
          ELSE <<>>) \o WebLinks(Tail(list))

read_annotations(list) == <<WEB_HEAD>> \o WebLinks(list)

FM_OPEN == "---\n"
FM_CLOSE == "---\n\n"
TAGLINK_OPEN == "[["

\* A faulty variant: the tag links are written whether or not there is a title.
Header_links_always(d, tags) ==
    (IF d.has_title
     THEN <<FM_OPEN>>
          \o (IF d.has_date THEN <<"date: ">> \o d.date \o <<"\n">> ELSE <<>>)
          \o (IF tags # <<>> THEN format_tags(tags) \o <<"\n">> ELSE <<>>)
          \o <<FM_CLOSE>>
     ELSE <<>>)
    \o (IF tags # <<>>
        THEN <<TAGLINK_OPEN>> \o Join(<<"]] [[">>, tags) \o <<"]]\n">>
        ELSE <<>>)

\* lines 112-121: the front matter, or the line of tag links
Header(d, tags) ==
    IF d.has_title
    THEN <<FM_OPEN>>
         \o (IF d.has_date THEN <<"date: ">> \o d.date \o <<"\n">> ELSE <<>>)
         \o (IF tags # <<>> THEN format_tags(tags) \o <<"\n">> ELSE <<>>)
         \o <<FM_CLOSE>>
    ELSE IF tags # <<>>
    THEN <<TAGLINK_OPEN>> \o Join(<<"]] [[">>, tags) \o <<"]]\n">>
    ELSE <<>>

\* lines 122-136: what is written between the header and the attachments
Body(note) ==
    (IF note.hasText THEN note.textContent \o <<"\n\n">> ELSE <<>>)
    \o (IF note.hasList THEN read_tasklist(note.listContent) \o <<"\n\n">> ELSE <<>>)
    \o (IF note.hasAnn THEN read_annotations(note.annotations) ELSE <<>>)

\* lines 56-58: the names of the labels
Tags(note) == IF note.hasLabels THEN note.labels ELSE <<>>

\* lines 80-83
Subfolder(note) == IF conv_folders /\ Tags(note) # <<>> THEN Tags(note)[1] ELSE <<>>

(***************************************************************************)
(* Note records (the JSON documents of the source root).  has* is whether  *)
(* the optional key is present.                                            *)
(***************************************************************************)
Note(title, ts, hasLabels, labels, hasList, list, hasAnn, ann, hasAtt, att) ==
    [title |-> title, userEditedTimestampUsec |-> ts,
     hasLabels |-> hasLabels, labels |-> labels,
     hasText |-> TRUE, textContent |-> <<"t">>,
     hasList |-> hasList, listContent |-> list,
     hasAnn |-> hasAnn, annotations |-> ann,
     hasAtt |-> hasAtt, attachments |-> att]

Usec(sec, usec) == [sec |-> sec, usec |-> usec]

NoStamp == Usec(0, 0)
Stamp2023 == Usec(1700000000, 0)

NoNote == Note(<<>>, NoStamp, FALSE, <<>>, FALSE, <<>>, FALSE, <<>>, FALSE, <<>>)
NoDerived == [filename |-> <<>>, has_title |-> FALSE, has_date |-> FALSE, date |-> <<>>]

\* readings of dt.now()
Clock0 == Usec(1700000100, 0)
NowTimes == {Usec(1700000100, 0), Usec(1700000100, 250000)}
Later(a, b) == a.sec > b.sec \/ (a.sec = b.sec /\ a.usec >= b.usec)

\* file names and MIME types of the attachments
P_JPG == <<"p">> \o JPG
P_JPEG == <<"p">> \o JPEG
Q_NOEXT == <<"q">>
V_MP4 == <<"v", ".", "m", "p", "4">>
IMAGE_JPEG == IMAGE \o <<"/", "j", "p", "e", "g">>
VIDEO_MP4 == <<"v", "i", "d", "e", "o", "/", "m", "p", "4">>
Image(file) == [mimetype |-> IMAGE_JPEG, filePath |-> file]
Video(file) == [mimetype |-> VIDEO_MP4, filePath |-> file]

\* tag names
TAG_W == <<"w">>
TAG_X == <<"x">>
TAG_W_X == <<"w", "/", "x">>

\* The notes of the runs that exercise the output tree: every combination of
\* a name, a first tag and an attachment, and three notes of their own: an
\* attachment without a file extension, a tag that names a nested folder,
\* and an attachment list that continues after a file that is not found.
FSNotes ==
    { Note(tt[1], tt[2], lb[1], lb[2], FALSE, <<>>, FALSE, <<>>, at[1], at[2]) :
        tt \in {<< <<"a">>, NoStamp >>, << <<>>, Stamp2023 >>, << <<>>, NoStamp >>},
        lb \in {<<FALSE, <<>> >>, <<TRUE, <<TAG_W>> >>, <<TRUE, <<RESOURCES>> >>},
        at \in {<<FALSE, <<>> >>, <<TRUE, <<Image(P_JPG)>> >>} }
    \cup
    { Note(<<"a">>, NoStamp, FALSE, <<>>, FALSE, <<>>, FALSE, <<>>, TRUE, <<Image(Q_NOEXT)>>),
      Note(<<"a">>, NoStamp, TRUE, <<TAG_W_X>>, FALSE, <<>>, FALSE, <<>>, FALSE, <<>>),
      Note(<<"a">>, NoStamp, TRUE, <<TAG_W>>, FALSE, <<>>, FALSE, <<>>, TRUE,
           <<Image(P_JPG), Image(Q_NOEXT)>>) }

Web(title, url) == [source |-> WEBLINK, title |-> title, url |-> url]
Other(title, url) == [source |-> <<"O", "T", "H", "E", "R">>, title |-> title, url |-> url]
Task(text, isChecked) == [text |-> text, isChecked |-> isChecked]

\* The notes of the runs that exercise the rendering of the sections.
RenderNotes ==
    { Note(tt[1], tt[2], lb[1], lb[2], li[1], li[2], an[1], an[2], at[1], at[2]) :
        tt \in {<< <<>>, NoStamp >>, << <<"a">>, NoStamp >>, << <<"a">>, Stamp2023 >>},
        lb \in {<<FALSE, <<>> >>, <<TRUE, <<>> >>, <<TRUE, <<TAG_W>> >>,
                <<TRUE, <<TAG_X, TAG_W>> >>},
        li \in {<<FALSE, <<>> >>, <<TRUE, <<Task(<<"c">>, TRUE), Task(<<"u">>, FALSE)>> >>},
        an \in {<<FALSE, <<>> >>, <<TRUE, <<Other(<<"o">>, <<"h">>)>> >>,
                <<TRUE, <<Other(<<"o">>, <<"h">>), Web(<<"l">>, <<"k">>)>> >>},
        at \in {<<FALSE, <<>> >>, <<TRUE, <<Video(V_MP4)>> >>,
                <<TRUE, <<Video(V_MP4), Image(P_JPG)>> >>} }

\* The characters of the titles of the pure steps: the ten that
\* clean_title rewrites, the three it writes, and a letter.
TitleChars == {"\\", "/", "|", "<", ">", ":", "?", "\"", "*", "\n", "_", "-", " ", "a"}

RECURSIVE SeqsUpTo(_, _)
SeqsUpTo(S, n) ==
    IF n = 0 THEN {<<>>}
    ELSE LET shorter == SeqsUpTo(S, n - 1)
         IN  shorter \cup {Append(s, c) : s \in shorter, c \in S}

LongTitles ==
    { Rep("a", MaxNameLen), Rep("a", MaxNameLen + 1),
      Rep("a", MaxNameLen - 1) \o <<"?", "b", "c">>,
      Rep("a", MaxNameLen - 2) \o <<":", "\n", "/", "b">> }

Titles == SeqsUpTo(TitleChars, MaxTitleLen) \cup LongTitles

Stamps == { Usec(sec, usec) : sec \in {0, 59, 86399, 951782400, 1700000000},
                              usec \in {0, 999999} }

Zones == {0, 3600, 0 - 18000}

DeriveNotes ==
    { Note(title, ts, FALSE, <<>>, FALSE, <<>>, FALSE, <<>>, FALSE, <<>>) :
        title \in Titles, ts \in Stamps }

(***************************************************************************)
(* The output tree a run starts from: nothing, or what an earlier run left.*)
(***************************************************************************)
OLD == <<"(written by an earlier run)">>

A_MD == <<"a">> \o MD
A1_MD == Numbered(<<"a">>, 1) \o MD

EmptyTree == [dirs |-> {}, files |-> <<>>]

EarlierTree ==
    [dirs |-> { <<NOTES>>, <<NOTES, RESOURCES>>, <<NOTES, TAG_W>>, <<NOTES, TAG_W, RESOURCES>> },
     files |-> [p \in { <<NOTES, A_MD>>, <<NOTES, A1_MD>>, <<NOTES, TAG_W, A_MD>> } |-> OLD]]

(***************************************************************************)
(* create_folder (lines 212-219), called once before the notes are read.   *)
(***************************************************************************)
create_folder ==
    /\ pc = "boot"
    /\ dirs' = IF Exists(<<NOTES, RESOURCES>>, dirs, files) THEN dirs
               ELSE dirs \cup {<<NOTES>>, <<NOTES, RESOURCES>>}
    /\ pc' = "loop"
    /\ UNCHANGED <<conv_folders, tz, clock, srcFiles, sibFiles, files, data, derived,
                   cleaned, log>>

(***************************************************************************)
(* One iteration of the loop of read_write_notes (lines 53-141): the note  *)
(* is loaded, named, given a folder, and written with its attachments.     *)
(***************************************************************************)
Process(note, now) ==
    LET tags      == Tags(note)
        d         == Derive(note.title, note.userEditedTimestampUsec, now)
        notes_dir == PathJoin(notes_root, Subfolder(note))
        filename  == Resolve(notes_dir, d.filename, dirs, files)
        md_path   == notes_dir \o <<filename \o MD>>
        \* lines 103-105; mkdir() needs the parent, open() needs the folder
        reachable == \/ notes_dir \in dirs
                     \/ (~Exists(notes_dir, dirs, files) /\ Parent(notes_dir) \in dirs)
        dirs1     == IF Exists(notes_dir, dirs, files) THEN dirs
                     ELSE dirs \cup {notes_dir, notes_dir \o <<RESOURCES>>}
        head      == Header(d, tags) \o Body(note)
        att       == IF note.hasAtt
                     THEN read_attachments(note.attachments, notes_dir, dirs1, files)
                     ELSE [out |-> <<>>, files |-> files, ok |-> TRUE]
        entry     == [note |-> note, dir |-> notes_dir, base |-> d.filename,
                      has_title |-> d.has_title, path |-> md_path,
                      written |-> reachable,
                      existed |-> Exists(md_path, dirs1, files),
                      resDir |-> (notes_dir \o <<RESOURCES>>) \in dirs1,
                      copied |-> IF reachable
                                 THEN {p \in DOMAIN att.files :
                                         p \notin DOMAIN files \/ att.files[p] # files[p]}
                                 ELSE {}]
    IN  /\ pc = "loop"
        /\ data' = note
        /\ derived' = d
        /\ clock' = IF note.title = <<>> /\ IsZero(note.userEditedTimestampUsec)
                    THEN now ELSE clock
        /\ log' = Append(log, entry)
        /\ IF ~reachable
           THEN /\ pc' = "crashed"       \* FileNotFoundError, NotADirectoryError
                /\ UNCHANGED <<dirs, files>>
           ELSE /\ dirs' = dirs1
                /\ files' = Put(att.files, md_path,
                                IF att.ok THEN head \o att.out ELSE head)
                /\ pc' = IF att.ok THEN "loop" ELSE "crashed"   \* AssertionError
        /\ UNCHANGED <<conv_folders, tz, srcFiles, sibFiles, cleaned>>

\* the readings dt.now() can give while `note` is processed (line 66 is the
\* only call); a note that does not read the clock leaves it as it is
Readings(note) ==
    IF note.title = <<>> /\ IsZero(note.userEditedTimestampUsec)
    THEN {t \in NowTimes : Later(t, clock)}
    ELSE {clock}

ProcessNote ==
    \E note \in FSNotes :
        \E now \in Readings(note) : Len(log) < MaxNotes /\ Process(note, now)

RenderNote ==
    \E note \in RenderNotes :
        \E now \in Readings(note) : Len(log) < MaxRenderNotes /\ Process(note, now)

\* the directory listing is exhausted; read_write_notes returns (lines 235-239)
Finish ==
    /\ pc = "loop"
    /\ pc' = "done"
    /\ UNCHANGED <<conv_folders, tz, clock, srcFiles, sibFiles, dirs, files, data,
                   derived, cleaned, log>>

Init ==
    /\ pc = "boot"
    /\ conv_folders \in BOOLEAN
    /\ tz = 0
    /\ clock = Clock0
    /\ \E src \in {<<{}, {}>>, <<{P_JPG}, {}>>, <<{P_JPEG}, {}>>, <<{P_JPEG}, {P_JPEG}>>} :
          srcFiles = src[1] /\ sibFiles = src[2]
    /\ \E tree \in {EmptyTree, EarlierTree} : dirs = tree.dirs /\ files = tree.files
    /\ data = NoNote
    /\ derived = NoDerived
    /\ cleaned = <<>>
    /\ log = <<>>

Next == create_folder \/ ProcessNote \/ Finish

Spec == Init /\ [][Next]_vars

(***************************************************************************)
(* Runs over notes that vary in their sections, from an empty output tree. *)
(***************************************************************************)
InitRender ==
    /\ pc = "boot"
    /\ conv_folders \in BOOLEAN
    /\ tz = 0
    /\ clock = Clock0
    /\ srcFiles = {P_JPG}
    /\ sibFiles = {}
    /\ dirs = EmptyTree.dirs
    /\ files = EmptyTree.files
    /\ data = NoNote
    /\ derived = NoDerived
    /\ cleaned = <<>>
    /\ log = <<>>

NextRender == create_folder \/ RenderNote \/ Finish

SpecRender == InitRender /\ [][NextRender]_vars

(***************************************************************************)
(* The pure steps, applied to a loaded note: the match statement of lines  *)
(* 62-77, and clean_title.                                                 *)
(***************************************************************************)
DeriveStep ==
    /\ pc = "loaded"
    /\ \E now \in NowTimes :
        /\ derived' = Derive(data.title, data.userEditedTimestampUsec, now)
        /\ clock' = now
    /\ pc' = "derived"
    /\ UNCHANGED <<conv_folders, tz, srcFiles, sibFiles, dirs, files, data, cleaned, log>>

CleanStep ==
    /\ pc = "loaded"
    /\ cleaned' = clean_title(data.title)
    /\ pc' = "cleaned"
    /\ UNCHANGED <<conv_folders, tz, clock, srcFiles, sibFiles, dirs, files, data,
                   derived, log>>

InitDerive ==
    /\ pc = "loaded"
    /\ conv_folders = FALSE
    /\ tz \in Zones
    /\ clock = Clock0
    /\ srcFiles = {}
    /\ sibFiles = {}
    /\ dirs = EmptyTree.dirs
    /\ files = EmptyTree.files
    /\ data \in DeriveNotes
    /\ derived = NoDerived
    /\ cleaned = <<>>
    /\ log = <<>>

NextDerive == DeriveStep \/ CleanStep

SpecDerive == InitDerive /\ [][NextDerive]_vars

(***************************************************************************)
(* The properties checked.                                                 *)
(***************************************************************************)
Entries == 1..Len(log)

\* the text of the file written for the i-th note
Content(i) == files[log[i].path]

IsMd(p) == Len(p) > 0 /\ Len(p[Len(p)]) >= Len(MD)
           /\ SubSeq(p[Len(p)], Len(p[Len(p)]) - Len(MD) + 1, Len(p[Len(p)])) = MD

\* C1: in a run of read_write_notes, from any output tree and for any
\* sequence of notes, the path a note is written to does not exist when it
\* is opened for writing: no write replaces a .md file of before the run
\* or of an earlier note of the run.
C1_NoOverwrite ==
    /\ \A i \in Entries : log[i].written => ~log[i].existed
    /\ \A i, j \in Entries :
          (i < j /\ log[i].written /\ log[j].written) => log[i].path # log[j].path
    /\ \A i \in Entries : log[i].written => (IsMd(log[i].path) /\ Content(i) # OLD)

\* a note whose name was taken twice over, written under the number 2
C1_Witness ==
    \E i \in Entries :
        /\ log[i].written
        /\ log[i].path = log[i].dir \o <<Numbered(log[i].base, 2) \o MD>>
        /\ (log[i].dir \o <<log[i].base \o MD>>) \in DOMAIN files
        /\ (log[i].dir \o <<Numbered(log[i].base, 1) \o MD>>) \in DOMAIN files

\* C2: every note of a directory of valid notes is processed to completion
\* and gets its .md file; no valid note stops the run before the remaining
\* notes are written.
C2_EveryNoteWritten ==
    /\ pc # "crashed"
    /\ \A i \in Entries : log[i].written

DigitTokens == {"0", "1", "2", "3", "4", "5", "6", "7", "8", "9"}

\* the table of the title sanitization: what becomes of each character
CharMap(c) ==
    IF c \in {"\\", "/", "|"} THEN <<"_">>
    ELSE IF c \in {"<", ">"} THEN <<"-">>
    ELSE IF c = ":" THEN <<" ">>
    ELSE IF c \in {"?", "\"", "*", "\n"} THEN <<>>
    ELSE <<c>>

Sanitized(title) == Concat([i \in 1..Len(title) |-> CharMap(title[i])])

\* YYYY-MM-DD+HHMMSS
DatedShape(f) ==
    /\ Len(f) = 17
    /\ f[5] = "-" /\ f[8] = "-" /\ f[11] = "+"
    /\ \A i \in (1..17) \ {5, 8, 11} : f[i] \in DigitTokens

\* YYYYMMDDTHHMMSS.ffffff_edited
NowShape(f) ==
    /\ Len(f) = 29
    /\ f[9] = "T" /\ f[16] = "."
    /\ SubSeq(f, 23, 29) = <<"_", "e", "d", "i", "t", "e", "d">>
    /\ \A i \in (1..22) \ {9, 16} : f[i] \in DigitTokens

\* C3: the four cases of the filename: has_title exactly when the title is
\* not empty; a date exactly when the title is not empty and the timestamp
\* is not zero; with a title the filename is the sanitized title cut to 99
\* characters; without a title and with a timestamp it is the timestamp as
\* YYYY-MM-DD+HHMMSS in local time; with neither it is the current time
\* followed by _edited.
C3_FilenameTable ==
    pc = "derived" =>
        LET title == data.title
            ts    == data.userEditedTimestampUsec
            f     == derived.filename
        IN  /\ derived.has_title <=> (title # <<>>)
            /\ derived.has_date <=> (title # <<>> /\ ~IsZero(ts))
            /\ title # <<>> =>
                  /\ Len(f) <= 99
                  /\ f = SubSeq(Sanitized(title), 1, Len(f))
                  /\ Len(Sanitized(title)) <= 99 => f = Sanitized(title)
                  /\ Len(Sanitized(title)) > 99 => Len(f) = 99
            /\ derived.has_date =>
                  /\ derived.date = isoformat(fromtimestamp(ts))
                  /\ (tz = 0 /\ ts.sec = 1700000000) =>
                        derived.date = <<"2", "0", "2", "3", "-", "1", "1", "-", "1", "4", "T",
                                         "2", "2", ":", "1", "3", ":", "2", "0">>
            /\ ~derived.has_date => derived.date = <<>>
            /\ (title = <<>> /\ ~IsZero(ts)) =>
                  /\ DatedShape(f)
                  /\ f = strftime_dated(fromtimestamp(ts))
                  /\ (tz = 0 /\ ts.sec = 1700000000) =>
                        f = <<"2", "0", "2", "3", "-", "1", "1", "-", "1", "4", "+",
                              "2", "2", "1", "3", "2", "0">>
                  /\ (tz = 3600 /\ ts.sec = 86399) =>
                        f = <<"1", "9", "7", "0", "-", "0", "1", "-", "0", "2", "+",
                              "0", "0", "5", "9", "5", "9">>
                  /\ (tz = 0 - 18000 /\ ts.sec = 951782400) =>
                        f = <<"2", "0", "0", "0", "-", "0", "2", "-", "2", "8", "+",
                              "1", "9", "0", "0", "0", "0">>
            /\ (title = <<>> /\ IsZero(ts)) =>
                  /\ NowShape(f)
                  /\ f = strftime_now(fromtimestamp(clock))
                  /\ (tz = 0 /\ clock = Usec(1700000100, 250000)) =>
                        f = <<"2", "0", "2", "3", "1", "1", "1", "4", "T",
                              "2", "2", "1", "5", "0", "0", ".",
                              "2", "5", "0", "0", "0", "0", "_", "e", "d", "i", "t", "e", "d">>

\* a title whose sanitized text is longer than 99 characters, with a date
C3_Witness ==
    /\ pc = "derived"
    /\ Len(Sanitized(data.title)) > 99
    /\ Len(derived.filename) = 99
    /\ derived.filename # SubSeq(data.title, 1, 99)
    /\ derived.has_date

\* C4: whenever a note's file is written into a folder (the output root or
\* a tag folder, whatever the tag and whether or not the folder was there
\* before), that folder has its resources directory by then, and the image
\* copies land inside it.
C4_ResourcesBeforeWrite ==
    \A i \in Entries :
        log[i].written =>
            /\ log[i].resDir
            /\ \A p \in log[i].copied :
                  Len(p) = Len(log[i].dir) + 2
                  /\ SubSeq(p, 1, Len(log[i].dir) + 1) = log[i].dir \o <<RESOURCES>>

ImageEntries(note) ==
    IF note.hasAtt
    THEN {k \in 1..Len(note.attachments) : Contains(note.attachments[k].mimetype, IMAGE)}
    ELSE {}

\* C5: an image attachment that is not in the source root and has no
\* alternate (here: no file of any name there) is never fatal, whatever its
\* extension: nothing is copied, the text has the link with the original
\* name, and the run goes on.
C5_MissingImageNotFatal ==
    (srcFiles = {} /\ sibFiles = {}) =>
        \A i \in Entries :
            (log[i].written /\ ImageEntries(log[i].note) # {}) =>
                /\ log[i].copied = {}
                /\ \A k \in ImageEntries(log[i].note) :
                      Contains(Content(i), Link(log[i].note.attachments[k].filePath))
                /\ (i = Len(log) => pc # "crashed")

\* C6: when p.jpg is referenced and missing from the source root while
\* p.jpeg is there, the link names p.jpeg and p.jpeg is copied into the
\* resources directory of the destination folder.
C6_AlternateExtensionUsed ==
    (P_JPG \notin srcFiles /\ P_JPEG \in srcFiles) =>
        \A i \in Entries :
            (/\ log[i].written
             /\ log[i].resDir
             /\ log[i].note.hasAtt
             /\ log[i].note.attachments = <<Image(P_JPG)>>) =>
                /\ Contains(Content(i), Link(P_JPEG))
                /\ (log[i].dir \o <<RESOURCES, P_JPEG>>) \in DOMAIN files

\* C7: every .md file of the tree holds the complete text of its note, also
\* when the processing of a note fails part-way: a note with attachments
\* has its attachment section in its file.
C7_NoPartialFile ==
    \A i \in Entries :
        (log[i].written /\ log[i].note.hasAtt) => ATT_HEAD \in Range(Content(i))

HasWebLink(note) ==
    note.hasAnn /\ \E k \in 1..Len(note.annotations) : note.annotations[k].source = WEBLINK

\* C8: the Weblinks heading is written only for a note with a web-link
\* annotation, the Attachments heading only for a note with an image
\* attachment, the Tasklist heading only for a note with a checklist.
C8_NoEmptySection ==
    \A i \in Entries :
        log[i].written =>
            /\ WEB_HEAD \in Range(Content(i)) <=> HasWebLink(log[i].note)
            /\ ATT_HEAD \in Range(Content(i)) <=> (ImageEntries(log[i].note) # {})
            /\ TASK_HEAD \in Range(Content(i)) <=> log[i].note.hasList

IsTagChar(t) == t \in {"w", "x"}

\* C9: the front matter is written exactly when has_title; the line of tag
\* links exactly when there is no title and there are tags; neither when
\* there is no title and no tag; the tags stand in their order.
C9_HeaderForm ==
    \A i \in Entries :
        log[i].written =>
            LET c    == Content(i)
                tags == Tags(log[i].note)
            IN  /\ log[i].has_title <=> (c # <<>> /\ c[1] = FM_OPEN)
                /\ FM_OPEN \in Range(c) <=> log[i].has_title
                /\ FM_CLOSE \in Range(c) <=> log[i].has_title
                /\ TAGLINK_OPEN \in Range(c) <=> (~log[i].has_title /\ tags # <<>>)
                /\ Cardinality({k \in 1..Len(c) : c[k] = TAGLINK_OPEN}) <= 1
                /\ SelectSeq(c, IsTagChar) = Concat(tags)

\* a note with a title and two tags, and so with front matter
C9_Witness ==
    \E i \in Entries :
        /\ log[i].written
        /\ log[i].has_title
        /\ Tags(log[i].note) = <<TAG_X, TAG_W>>
        /\ Content(i)[1] = FM_OPEN

Forbidden == {"\\", "/", "|", "<", ">", ":", "?", "\"", "*", "\n"}

\* C10: clean_title is idempotent; its result has none of the characters
\* \ / | < > : ? " * and newline, and every other character of the title
\* is kept, unchanged and in order.
C10_CleanTitle ==
    pc = "cleaned" =>
        /\ clean_title(cleaned) = cleaned
        /\ Range(cleaned) \cap Forbidden = {}
        /\ cleaned = Sanitized(data.title)
        /\ SelectSeq(cleaned, LAMBDA c : c = "a") = SelectSeq(data.title, LAMBDA c : c = "a")

\* a title of which one character is rewritten and another is kept
C10_Witness ==
    /\ pc = "cleaned"
    /\ cleaned # data.title
    /\ cleaned # <<>>
    /\ Range(data.title) \cap Forbidden # {}

====
